---- MODULE Spec2Model ----
(***************************************************************************)
(* PortisProvider (src/src/provider.ts): the request relay between a host  *)
(* page and the Portis iframe.  The state is the provider's fields, the    *)
(* DOM elements it creates, the callbacks waiting on the `elements`        *)
(* promise, and logs of what crossed the boundary: messages posted to the  *)
(* iframe, completion callbacks invoked, subscriber callbacks invoked.     *)
(***************************************************************************)
EXTENDS Integers, Sequences, FiniteSets, TLC

VARIABLES
    queue,          \* this.queue: sequence of {payload, cb}
    requests,       \* this.requests: id -> {payload, cb}
    iframeReady,    \* this.iframeReady (declared without initialiser: falsy)
    account,        \* this.account
    network,        \* this.network
    events,         \* this.events: sequence of {eventName, callback}
    elements,       \* the `elements` promise: "pending" or "resolved";
                    \* "none" while no provider has been constructed
    ctorError,      \* what the last call of the constructor threw, "" if nothing
    contentWindow,  \* elements.iframe.contentWindow is non-null
    display,        \* elements.wrapper.style.display
    thens,          \* callbacks registered with elements.then, not yet run
    sent,           \* messages handed to iframe.contentWindow.postMessage
    cbLog,          \* completion callbacks invoked, in order, with arguments
    evLog,          \* subscriber callbacks invoked, in order, with argument
    nextId          \* ids handed out so far (ids are unique per request)

vars == <<queue, requests, iframeReady, account, network, events, elements,
          ctorError, contentWindow, display, thens, sent, cbLog,
          evLog, nextId>>

provider == <<queue, requests, iframeReady, account, network, events>>
dom      == <<elements, ctorError, contentWindow, display>>

----------------------------------------------------------------------------
(* Bounds of the model. *)
MaxEnqueue == 2     \* requests enqueued in one run
MaxCalls   == 2     \* completion-callback invocations recorded
MaxSubs    == 3     \* subscribers registered
MaxNotify  == 2     \* subscriber invocations recorded
MaxShows   == 1     \* show/hide callbacks waiting on the elements promise

----------------------------------------------------------------------------
(* JavaScript values.  A string is its sequence of characters, so that     *)
(* indexing a string and indexing an array are both computed.              *)
Undefined == [t |-> "undefined", v |-> <<>>]
Null      == [t |-> "null", v |-> <<>>]
Str(s)    == [t |-> "str", v |-> s]
Arr(a)    == [t |-> "arr", v |-> a]

\* ToBoolean
Truthy(x) ==
    CASE x.t = "undefined" -> FALSE
      [] x.t = "null"      -> FALSE
      [] x.t = "str"       -> Len(x.v) > 0
      [] OTHER             -> TRUE

\* x[0] throws a TypeError on undefined and null
CanIndex(x) == x.t \notin {"undefined", "null"}

\* x[0]: first element of an array, first character of a string
Index0(x) ==
    CASE x.t = "arr" -> IF Len(x.v) > 0 THEN x.v[1] ELSE Undefined
      [] x.t = "str" -> IF Len(x.v) > 0 THEN Str(<<x.v[1]>>) ELSE Undefined
      [] OTHER       -> Undefined

\* o.f of an object that may lack the property
Get(o, f) == IF f \in DOMAIN o THEN o[f] ELSE Undefined

----------------------------------------------------------------------------
(* Program constants. *)
portisClient == "https://app.portis.io"

PT_RESPONSE       == "PT_RESPONSE"
PT_HANDLE_REQUEST == "PT_HANDLE_REQUEST"
PT_GREEN_LIGHT    == "PT_GREEN_LIGHT"
PT_SHOW_IFRAME    == "PT_SHOW_IFRAME"
PT_HIDE_IFRAME    == "PT_HIDE_IFRAME"
PT_USER_DENIED    == "PT_USER_DENIED"
PT_USER_LOGGED_IN == "PT_USER_LOGGED_IN"

SET_DEFAULT_EMAIL == "SET_DEFAULT_EMAIL"
SHOW_PORTIS       == "SHOW_PORTIS"

\* new Error('User denied transaction signature.')
DeniedError == [t |-> "error", v |-> <<"User denied transaction signature.">>]

----------------------------------------------------------------------------
(* Inputs. *)
Addr1 == Str(<<"0", "x", "a">>)
Addr2 == Str(<<"0", "x", "b">>)

\* methods a caller passes to sendAsync: the three the listener knows; the
\* requests of send, setDefaultEmail and showPortis carry the other methods
AsyncMethods == {"eth_accounts", "eth_coinbase", "net_version"}
\* methods a caller passes to the synchronous send
SyncMethods == {"eth_accounts", "eth_coinbase", "net_version", "eth_uninstallFilter",
                "eth_sendTransaction"}
EventNames == {"login", "purchase-initiated"}

\* response.result: an account list, a string, or absent
Results == {Arr(<<Addr1>>), Str(<<"4", "2">>), Undefined}

\* 0 stands for a response without an id
NoId == 0
RespIds == 0 .. MaxEnqueue
IdOf(resp) == IF "id" \in DOMAIN resp THEN resp.id ELSE NoId

\* evt.data.response is absent
NoResponse == Undefined

Origins == {portisClient, "https://evil.example"}

\* evt.data of the MessageEvents the window can receive; PT_HANDLE_REQUEST
\* stands for the message types the listener has no case for
Events ==
    [origin : Origins,
     msgType : {PT_GREEN_LIGHT, PT_SHOW_IFRAME, PT_HIDE_IFRAME, PT_HANDLE_REQUEST},
     response : {NoResponse}]
    \cup
    [origin : Origins, msgType : {PT_RESPONSE, PT_USER_DENIED},
     response : {NoResponse} \cup [id : RespIds, result : Results]]
    \cup
    [origin : Origins, msgType : {PT_USER_LOGGED_IN},
     response : {NoResponse} \cup [address : {Addr1, Addr2}]]

\* the MessageEvent of the Portis origin with the given type and response
FromPortis(msgType, resp) ==
    [origin |-> portisClient, msgType |-> msgType, response |-> resp]

----------------------------------------------------------------------------
(* Helpers of the provider. *)

\* sendPostMessage: registers a callback on the elements promise
PostThen(msgType, payload) == [kind |-> "post", msgType |-> msgType, payload |-> payload]
ShowThen == [kind |-> "show", msgType |-> "", payload |-> Undefined]
HideThen == [kind |-> "hide", msgType |-> "", payload |-> Undefined]

\* fault: a dequeue that pops the newest item first
RECURSIVE DequeueLifo(_, _, _)
DequeueLifo(q, reqs, th) ==
    IF Len(q) = 0
    THEN [queue |-> q, requests |-> reqs, thens |-> th]
    ELSE LET item == q[Len(q)]
         IN  DequeueLifo(SubSeq(q, 1, Len(q) - 1),
                         (item.payload.id :> item) @@ reqs,
                         Append(th, PostThen(PT_HANDLE_REQUEST, item.payload)))

\* fault: the last item is posted and registered but stays in the queue
RECURSIVE DequeueKeepsLast(_, _, _)
DequeueKeepsLast(q, reqs, th) ==
    IF Len(q) = 0
    THEN [queue |-> q, requests |-> reqs, thens |-> th]
    ELSE LET item == Head(q)
             rest == IF Len(q) = 1
                     THEN [queue |-> q, requests |-> reqs, thens |-> th]
                     ELSE DequeueKeepsLast(Tail(q), reqs, th)
         IN  [queue |-> rest.queue,
              requests |-> (item.payload.id :> item) @@ rest.requests,
              thens |-> <<PostThen(PT_HANDLE_REQUEST, item.payload)>> \o rest.thens]

\* fault: dequeue pops the head, posts and registers it, and does not recurse
DequeueOne(q, reqs, th) ==
    IF Len(q) = 0
    THEN [queue |-> q, requests |-> reqs, thens |-> th]
    ELSE LET item == Head(q)
         IN  [queue |-> Tail(q),
              requests |-> (item.payload.id :> item) @@ reqs,
              thens |-> Append(th, PostThen(PT_HANDLE_REQUEST, item.payload))]

\* dequeue: pops the head, posts it, registers it as pending, and recurses
RECURSIVE Dequeue(_, _, _)
Dequeue(q, reqs, th) ==
    IF Len(q) = 0
    THEN [queue |-> q, requests |-> reqs, thens |-> th]
    ELSE LET item == Head(q)
         IN  Dequeue(Tail(q),
                     (item.payload.id :> item) @@ reqs,
                     Append(th, PostThen(PT_HANDLE_REQUEST, item.payload)))

\* the call this.dequeue() as the last statement of a handler
DoDequeue ==
    LET d == Dequeue(queue, requests, thens)
    IN  /\ queue' = d.queue
        /\ requests' = d.requests
        /\ thens' = d.thens

\* fault: enqueue drains without looking at the readiness of the iframe
EnqueueAlwaysDrains(payload, cb) ==
    LET d == Dequeue(Append(queue, [payload |-> payload, cb |-> cb]), requests, thens)
    IN  /\ queue' = d.queue
        /\ requests' = d.requests
        /\ thens' = d.thens

\* enqueue: push, and drain when the iframe is ready
Enqueue(payload, cb) ==
    LET q == Append(queue, [payload |-> payload, cb |-> cb])
    IN  IF iframeReady
        THEN LET d == Dequeue(q, requests, thens)
             IN  /\ queue' = d.queue
                 /\ requests' = d.requests
                 /\ thens' = d.thens
        ELSE /\ queue' = q
             /\ UNCHANGED <<requests, thens>>

\* callbacks of one kind waiting on the elements promise
Waiting(kind) == Len(SelectSeq(thens, LAMBDA t : t.kind = kind))

\* a microtask is runnable: handlers of later tasks wait for it
MicrotaskPending == elements = "resolved" /\ thens # <<>>

----------------------------------------------------------------------------
(* The facade. *)

\* sendAsync(payload, cb): the caller's payload carries a fresh id
SendAsync(method) ==
    /\ nextId < MaxEnqueue
    /\ Enqueue([id |-> nextId + 1, method |-> method, params |-> <<>>], nextId + 1)
    /\ nextId' = nextId + 1
    /\ UNCHANGED <<iframeReady, account, network, events, dom, sent, cbLog, evLog>>

\* fault: eth_accounts answers the bare account, not a list
SendResultBare(method) ==
    CASE method = "net_version" -> network
      [] OTHER                  -> account

\* the result send(payload) returns for a method it serves locally
SendResult(method) ==
    CASE method = "eth_accounts" -> IF Truthy(account) THEN Arr(<<account>>) ELSE Arr(<<>>)
      [] method = "eth_coinbase" -> account
      [] method = "net_version"  -> network
      [] OTHER                   -> Undefined

\* send(payload) throws the Error of its default case
SendThrows(method) ==
    method \notin {"eth_accounts", "eth_coinbase", "net_version", "eth_uninstallFilter"}

\* fault: a send that relays every method, as sendAsync does
SendRelaysAll(method) ==
    /\ nextId < MaxEnqueue
    /\ Enqueue([id |-> nextId + 1, method |-> method, params |-> <<>>], nextId + 1)
    /\ nextId' = nextId + 1
    /\ UNCHANGED <<iframeReady, account, network, events, dom, sent, cbLog, evLog>>

\* send(payload)
Send(method) ==
    CASE SendThrows(method) ->
            UNCHANGED <<provider, dom, thens, sent, cbLog, evLog, nextId>>
      [] method = "eth_uninstallFilter" ->
            /\ nextId < MaxEnqueue
            /\ Enqueue([id |-> nextId + 1, method |-> method, params |-> <<>>], nextId + 1)
            /\ nextId' = nextId + 1
            /\ UNCHANGED <<iframeReady, account, network, events, dom, sent, cbLog,
                           evLog>>
      [] OTHER ->
            UNCHANGED <<provider, dom, thens, sent, cbLog, evLog, nextId>>

\* sendGenericPayload(method, params, callback): id from randomId()
SendGenericPayload(method, params) ==
    /\ nextId < MaxEnqueue
    /\ Enqueue([id |-> nextId + 1, method |-> method, params |-> params], nextId + 1)
    /\ nextId' = nextId + 1
    /\ UNCHANGED <<iframeReady, account, network, events, dom, sent, cbLog, evLog>>

\* setDefaultEmail(email)
SetDefaultEmail(email) == SendGenericPayload(SET_DEFAULT_EMAIL, <<email>>)

\* showPortis(callback)
ShowPortis == SendGenericPayload(SHOW_PORTIS, <<>>)

\* on(eventName, callback)
On(eventName) ==
    /\ Len(events) < MaxSubs
    /\ events' = Append(events, [eventName |-> eventName, callback |-> Len(events) + 1])
    /\ UNCHANGED <<queue, requests, iframeReady, account, network, dom, thens, sent,
                   cbLog, evLog, nextId>>

----------------------------------------------------------------------------
(* The elements promise. *)

\* the 'load' listener of createIframe: onload() builds the iframe and resolves
WindowLoad ==
    /\ elements = "pending"
    /\ elements' = "resolved"
    /\ contentWindow' = TRUE
    /\ UNCHANGED <<provider, ctorError, display, thens, sent, cbLog, evLog,
                   nextId>>

\* the oldest callback registered with elements.then runs: the postMessage of
\* sendPostMessage, or the wrapper's display set by showIframe and hideIframe
\* (the scroll lock they put on document.body on a mobile device is page
\* styling and is not part of the state)
RunThen ==
    /\ MicrotaskPending
    /\ thens' = Tail(thens)
    /\ LET t == Head(thens)
       IN  CASE t.kind = "post" ->
                   /\ sent' = IF contentWindow
                              THEN Append(sent, [msgType |-> t.msgType, payload |-> t.payload])
                              ELSE sent
                   /\ UNCHANGED display
             [] t.kind = "show" ->
                   /\ display' = "block"
                   /\ UNCHANGED sent
             [] OTHER ->
                   /\ display' = "none"
                   /\ UNCHANGED sent
    /\ UNCHANGED <<provider, elements, ctorError, contentWindow, cbLog, evLog, nextId>>

----------------------------------------------------------------------------
(* The message listener.  A handler that throws a TypeError stops where it *)
(* throws: what it did before stays done, what follows is not executed.    *)

\* fault: the ready-signal sets the flag and leaves the queue as it is
GreenLightWithoutDrain ==
    /\ iframeReady' = TRUE
    /\ UNCHANGED <<queue, requests, thens, account, network, events, cbLog, evLog>>

\* case PT_GREEN_LIGHT
OnGreenLight ==
    /\ iframeReady' = TRUE
    /\ DoDequeue
    /\ UNCHANGED <<account, network, events, cbLog, evLog>>

\* this.requests[id].cb reads a property of undefined: evt.data.response is
\* absent, or id is no key of this.requests
LookupThrows(resp) == resp = NoResponse \/ IdOf(resp) \notin DOMAIN requests

\* evt.data.response.result[0] reads a property of undefined
ResultThrows(method, result) ==
    method \in {"eth_accounts", "eth_coinbase"} /\ ~CanIndex(result)

\* fault: account takes the whole result instead of its first element
AccountWholeResult(method, result) ==
    IF method \in {"eth_accounts", "eth_coinbase"} THEN result ELSE account

\* fault: account is set whatever the method of the request
AccountAnyMethod(method, result) == Index0(result)

\* this.account after the response to a request of the given method
NewAccount(method, result) ==
    IF method \in {"eth_accounts", "eth_coinbase"} THEN Index0(result) ELSE account

\* this.network after the response to a request of the given method
NewNetwork(method, result) ==
    IF method = "net_version" THEN result ELSE network

\* case PT_RESPONSE
OnResponse(resp) ==
    LET id     == IdOf(resp)
        result == Get(resp, "result")
    IN  IF LookupThrows(resp)
        THEN UNCHANGED <<provider, thens, cbLog, evLog>>
        ELSE LET method == requests[id].payload.method
             IN  /\ Len(cbLog) < MaxCalls
                 /\ cbLog' = Append(cbLog, [cb |-> requests[id].cb, err |-> Null,
                                            res |-> resp])
                 /\ IF ResultThrows(method, result)
                    THEN UNCHANGED <<provider, thens, evLog>>
                    ELSE /\ account' = NewAccount(method, result)
                         /\ network' = NewNetwork(method, result)
                         /\ DoDequeue
                         /\ UNCHANGED <<iframeReady, events, evLog>>

\* case PT_SHOW_IFRAME
OnShowIframe ==
    /\ Waiting("show") + Waiting("hide") < MaxShows
    /\ thens' = Append(thens, ShowThen)
    /\ UNCHANGED <<provider, cbLog, evLog>>

\* case PT_HIDE_IFRAME
OnHideIframe ==
    /\ Waiting("show") + Waiting("hide") < MaxShows
    /\ thens' = Append(thens, HideThen)
    /\ UNCHANGED <<provider, cbLog, evLog>>

\* fault: the denial without id is also told to the pending requests
RECURSIVE DenyPending(_)
DenyPending(ids) ==
    IF ids = {} THEN <<>>
    ELSE LET id == CHOOSE i \in ids : \A j \in ids : i <= j
         IN  <<[cb |-> requests[id].cb, err |-> DeniedError, res |-> Undefined]>>
                 \o DenyPending(ids \ {id})

DenyQueuedAndPending(q) ==
    [i \in 1 .. Len(q) |-> [cb |-> q[i].cb, err |-> DeniedError, res |-> Undefined]]
        \o DenyPending(DOMAIN requests)

\* fault: only the head of the queue is told of the denial
DenyHead(q) ==
    IF Len(q) = 0 THEN <<>>
    ELSE <<[cb |-> q[1].cb, err |-> DeniedError, res |-> Undefined]>>

\* the queue.forEach of the denial without id
DenyAll(q) == [i \in 1 .. Len(q) |-> [cb |-> q[i].cb, err |-> DeniedError, res |-> Undefined]]

\* const id = evt.data.response ? evt.data.response.id : null
DeniedId(resp) == IF resp # NoResponse THEN IdOf(resp) ELSE NoId

\* case PT_USER_DENIED
OnUserDenied(resp) ==
    LET id == DeniedId(resp)
    IN  IF id # NoId
        THEN IF LookupThrows(resp)
             THEN UNCHANGED <<provider, thens, cbLog, evLog>>
             ELSE /\ Len(cbLog) < MaxCalls
                  /\ cbLog' = Append(cbLog, [cb |-> requests[id].cb, err |-> DeniedError,
                                             res |-> Undefined])
                  /\ DoDequeue
                  /\ UNCHANGED <<iframeReady, account, network, events, evLog>>
        ELSE /\ Len(cbLog) + Len(queue) <= MaxCalls
             /\ cbLog' = cbLog \o DenyAll(queue)
             /\ DoDequeue
             /\ UNCHANGED <<iframeReady, account, network, events, evLog>>

\* fault: no filter on the event name
AllSubscribers == events

\* this.events.filter(event => event.eventName == 'login')
LoginSubscribers == SelectSeq(events, LAMBDA s : s.eventName = "login")

\* evt.data.response.address reads a property of undefined
AddressThrows(resp) == Len(LoginSubscribers) > 0 /\ resp = NoResponse

\* case PT_USER_LOGGED_IN
OnUserLoggedIn(resp) ==
    LET subs == LoginSubscribers
    IN  IF AddressThrows(resp)
        THEN UNCHANGED <<provider, thens, cbLog, evLog>>
        ELSE /\ Len(evLog) + Len(subs) <= MaxNotify
             /\ evLog' = evLog \o [i \in 1 .. Len(subs) |->
                                     [callback |-> subs[i].callback,
                                      arg |-> [provider |-> "portis",
                                               address |-> Get(resp, "address")]]]
             /\ UNCHANGED <<provider, thens, cbLog>>

\* a message the switch has no case for, or that fails the origin test
Ignore == UNCHANGED <<provider, thens, cbLog, evLog>>

\* fault: no origin test
OriginAcceptedAny(origin) == TRUE

\* the origin test of the listener
OriginAccepted(origin) == origin = portisClient

\* the listener throws a TypeError while it handles e
Throws(e) ==
    /\ OriginAccepted(e.origin)
    /\ CASE e.msgType = PT_RESPONSE ->
               \/ LookupThrows(e.response)
               \/ ResultThrows(requests[IdOf(e.response)].payload.method,
                               Get(e.response, "result"))
         [] e.msgType = PT_USER_DENIED ->
               DeniedId(e.response) # NoId /\ LookupThrows(e.response)
         [] e.msgType = PT_USER_LOGGED_IN -> AddressThrows(e.response)
         [] OTHER -> FALSE

\* the 'message' listener installed by listen(); a MessageEvent is a task of
\* its own, and one of the Portis origin comes from the iframe, so after onload
Listen(e) ==
    /\ elements # "none"
    /\ ~MicrotaskPending
    /\ e.origin = portisClient => elements = "resolved"
    /\ UNCHANGED <<dom, sent, nextId>>
    /\ IF OriginAccepted(e.origin)
       THEN CASE e.msgType = PT_GREEN_LIGHT    -> OnGreenLight
              [] e.msgType = PT_RESPONSE       -> OnResponse(e.response)
              [] e.msgType = PT_SHOW_IFRAME    -> OnShowIframe
              [] e.msgType = PT_HIDE_IFRAME    -> OnHideIframe
              [] e.msgType = PT_USER_DENIED    -> OnUserDenied(e.response)
              [] e.msgType = PT_USER_LOGGED_IN -> OnUserLoggedIn(e.response)
              [] OTHER                         -> Ignore
       ELSE Ignore

----------------------------------------------------------------------------
(* The constructor. *)

\* opts; an absent option is the empty string, which is falsy as well
Options == [apiKey : {"", "key"}, infuraApiKey : {"", "infura"},
            providerNodeUrl : {"", "https://node.example"}]

ApiKeyMissing == "apiKey is missing"
InvalidParameters == "Invalid parameters"

\* what the constructor throws for opts on a page that is or is not served
\* from localhost; "" if it throws nothing
CtorThrown(opts, localhost) ==
    IF ~localhost /\ opts.apiKey = ""
    THEN ApiKeyMissing
    ELSE IF opts.infuraApiKey # "" /\ opts.providerNodeUrl # ""
         THEN InvalidParameters
         ELSE ""

\* the fields as their initialisers and createIframe leave them; loaded says
\* whether document.readyState is already loaded, interactive or complete
Constructed(loaded) ==
    /\ queue' = <<>>
    /\ requests' = <<>>
    /\ iframeReady' = FALSE
    /\ account' = Null
    /\ network' = Null
    /\ events' = <<>>
    /\ elements' = IF loaded THEN "resolved" ELSE "pending"
    /\ contentWindow' = loaded
    /\ UNCHANGED <<display, thens, sent, cbLog, evLog, nextId>>

\* fault: the options are validated after the iframe and the listener are set up
ConstructValidatesLate(opts, localhost, loaded) ==
    /\ elements = "none"
    /\ ctorError' = CtorThrown(opts, localhost)
    /\ Constructed(loaded)

\* new PortisProvider(opts)
Construct(opts, localhost, loaded) ==
    /\ elements = "none"
    /\ ctorError' = CtorThrown(opts, localhost)
    /\ IF CtorThrown(opts, localhost) # ""
       THEN UNCHANGED <<provider, elements, contentWindow, display, thens, sent,
                        cbLog, evLog, nextId>>
       ELSE Constructed(loaded)

----------------------------------------------------------------------------
(* The provider after construction. *)
Init ==
    /\ queue = <<>>
    /\ requests = <<>>
    /\ iframeReady = FALSE
    /\ account = Null
    /\ network = Null
    /\ events = <<>>
    /\ elements \in {"pending", "resolved"}
    /\ ctorError = ""
    /\ contentWindow = (elements = "resolved")
    /\ display = ""
    /\ thens = <<>>
    /\ sent = <<>>
    /\ cbLog = <<>>
    /\ evLog = <<>>
    /\ nextId = 0

\* the whole provider; its host page registers one subscriber (several
\* subscribers are the matter of SpecNotify)
Next ==
    \/ \E m \in AsyncMethods : SendAsync(m)
    \/ \E m \in SyncMethods : Send(m)
    \/ \E email \in {"a@b.c"} : SetDefaultEmail(email)
    \/ ShowPortis
    \/ \E n \in EventNames : events = <<>> /\ On(n)
    \/ WindowLoad
    \/ RunThen
    \/ \E e \in Events : Listen(e)

Spec == Init /\ [][Next]_vars

(* The relay alone: the host page uses the asynchronous facade only and    *)
(* registers no subscriber, every message comes from the iframe, and the   *)
(* iframe sends no show, hide or login message.                            *)
RelayEvents ==
    {e \in Events : /\ e.origin = portisClient
                    /\ e.msgType \in {PT_GREEN_LIGHT, PT_RESPONSE, PT_USER_DENIED,
                                      PT_HANDLE_REQUEST}}

NextRelay ==
    \/ \E m \in AsyncMethods : SendAsync(m)
    \/ \E email \in {"a@b.c"} : SetDefaultEmail(email)
    \/ ShowPortis
    \/ WindowLoad
    \/ RunThen
    \/ \E e \in RelayEvents : Listen(e)

SpecRelay == Init /\ [][NextRelay]_vars

(* The requests of the application alone: sendAsync is the only caller of  *)
(* enqueue, and the iframe sends the messages of the relay.                *)
NextAnswer ==
    \/ \E m \in AsyncMethods : SendAsync(m)
    \/ WindowLoad
    \/ RunThen
    \/ \E e \in RelayEvents : Listen(e)

SpecAnswer == Init /\ [][NextAnswer]_vars

(* The same under the scheduling of the event loop: a callback registered  *)
(* with elements.then runs once the promise is resolved, before any later  *)
(* task.  Nothing obliges the page to load or the iframe to send a message.*)
SpecLive == Init /\ [][NextAnswer]_vars /\ WF_vars(RunThen)

(* The facade alone: the host page calls every method of the facade, and   *)
(* the only message of the iframe is the ready-signal.                     *)
FacadeEvents == {FromPortis(PT_GREEN_LIGHT, NoResponse)}

NextFacade ==
    \/ \E m \in AsyncMethods : SendAsync(m)
    \/ \E m \in SyncMethods : Send(m)
    \/ \E email \in {"a@b.c"} : SetDefaultEmail(email)
    \/ ShowPortis
    \/ WindowLoad
    \/ RunThen
    \/ \E e \in FacadeEvents : Listen(e)

SpecFacade == Init /\ [][NextFacade]_vars

(* The notifications alone: the host page registers subscribers and sends  *)
(* no request; the iframe announces logins, asks to be shown or hidden,    *)
(* and sends messages of a type the listener has no case for.              *)
NotifyEvents ==
    {e \in Events : /\ e.origin = portisClient
                    /\ e.msgType \in {PT_USER_LOGGED_IN, PT_SHOW_IFRAME,
                                      PT_HIDE_IFRAME, PT_HANDLE_REQUEST}}

NextNotify ==
    \/ \E n \in EventNames : On(n)
    \/ WindowLoad
    \/ RunThen
    \/ \E e \in NotifyEvents : Listen(e)

SpecNotify == Init /\ [][NextNotify]_vars

(* Construction: the page has no provider at first; it calls the           *)
(* constructor until a call succeeds, and then uses the facade.            *)
InitCtor ==
    /\ queue = <<>>
    /\ requests = <<>>
    /\ iframeReady = FALSE
    /\ account = Null
    /\ network = Null
    /\ events = <<>>
    /\ elements = "none"
    /\ ctorError = ""
    /\ contentWindow = FALSE
    /\ display = ""
    /\ thens = <<>>
    /\ sent = <<>>
    /\ cbLog = <<>>
    /\ evLog = <<>>
    /\ nextId = 0

NextCtor ==
    \/ \E opts \in Options, localhost \in BOOLEAN, loaded \in BOOLEAN :
          Construct(opts, localhost, loaded)
    \/ elements # "none" /\ NextFacade

SpecCtor == InitCtor /\ [][NextCtor]_vars

----------------------------------------------------------------------------
(* Vocabulary of the properties. *)

\* number of invocations of the completion callback cb
TimesCalled(cb) == Cardinality({i \in 1 .. Len(cbLog) : cbLog[i].cb = cb})

\* the ids a message can carry
CarriedIds == RespIds \ {NoId}

\* the denials that name no request
BroadcastDenials == {NoResponse} \cup [id : {NoId}, result : Results]

\* the record of cb invoked with the denial error
Denied(cb) == [cb |-> cb, err |-> DeniedError, res |-> Undefined]

\* the result is an array with a first element
HasFirst(result) == result.t = "arr" /\ Len(result.v) >= 1

\* the listener handles the response or denial (t) that carries id i and
\* result r, while i is pending for a request of one of the methods
Resolves(t, i, r, methods) ==
    /\ i \in DOMAIN requests
    /\ requests[i].payload.method \in methods
    /\ Listen(FromPortis(t, [id |-> i, result |-> r]))

----------------------------------------------------------------------------
(* C1: the requests are posted to the iframe in the order in which they    *)
(* were enqueued: ids are handed out in enqueue order, and the k-th        *)
(* message posted carries the k-th id, whether the request waited in the   *)
(* queue for the ready-signal or was enqueued after it.                    *)
C1_FifoAcrossReadiness ==
    \A i \in 1 .. Len(sent) :
        /\ sent[i].msgType = PT_HANDLE_REQUEST
        /\ sent[i].payload.id = i

\* all requests of the run were posted after the ready-signal, the only
\* message handled that invoked no callback
C1_Witness ==
    /\ iframeReady
    /\ Len(sent) = MaxEnqueue
    /\ MaxEnqueue >= 2
    /\ cbLog = <<>>

(* C2 (as claimed): a request is posted to the iframe only after the       *)
(* ready-signal was handled.                                               *)
C2_NoSendBeforeReady == sent # <<>> => iframeReady

(* C3 (as claimed): the completion callback of a request is invoked at     *)
(* most once.                                                              *)
C3_AtMostOnce == \A cb \in 1 .. nextId : TimesCalled(cb) <= 1

(* C4 (as claimed): once a response or an id-carrying denial for the       *)
(* pending id i has been handled, i is no key of the pending map.          *)
C4_RemovedOnResolution ==
    [][\A t \in {PT_RESPONSE, PT_USER_DENIED}, i \in CarriedIds, r \in Results :
          Resolves(t, i, r, {requests[i].payload.method})
              => i \notin DOMAIN requests']_vars

(* C5 (as claimed): a response or id-carrying denial whose id is no key of *)
(* the pending map is handled silently: in no reachable state does the     *)
(* listener throw on such a message.                                       *)
C5_UnknownIdIsNoOp ==
    \A t \in {PT_RESPONSE, PT_USER_DENIED}, i \in CarriedIds, r \in Results :
        i \notin DOMAIN requests
            => ~Throws(FromPortis(t, [id |-> i, result |-> r]))

(* C6 (as claimed): a denial carrying the id i of a pending request        *)
(* invokes the callback of i with the denial error and nothing else: the   *)
(* other pending entries and the queue are as before, nothing is posted    *)
(* or registered for posting.                                              *)
C6_DenialWithIdFrame ==
    [][\A i \in CarriedIds, r \in Results :
          Resolves(PT_USER_DENIED, i, r, {requests[i].payload.method})
              => /\ cbLog' = Append(cbLog, Denied(requests[i].cb))
                 /\ UNCHANGED <<queue, requests, thens, sent>>]_vars

(* C7: a denial without an id invokes the callback of every queued item,   *)
(* in queue order, with the denial error, and leaves the queue empty: in   *)
(* no reachable state can the listener handle such a denial otherwise.     *)
C7_BroadcastDenial ==
    \A resp \in BroadcastDenials :
        ~ENABLED (/\ Listen(FromPortis(PT_USER_DENIED, resp))
                  /\ ~(/\ Len(cbLog') = Len(cbLog) + Len(queue)
                       /\ \A i \in 1 .. Len(queue) :
                              cbLog'[Len(cbLog) + i] = Denied(queue[i].cb)
                       /\ \A i \in 1 .. Len(cbLog) : cbLog'[i] = cbLog[i]
                       /\ queue' = <<>>))

\* a denial without an id met two queued requests before the ready-signal:
\* both callbacks got the error, and the queue was drained
C7_Witness ==
    /\ ~iframeReady
    /\ queue = <<>>
    /\ cbLog = <<Denied(1), Denied(2)>>
    /\ Len(thens) = 2 /\ sent = <<>>

(* C8 (as claimed): after a response or a denial for a pending             *)
(* eth_accounts request, account is the first element of the message's     *)
(* result; after one for a pending net_version request, network is the     *)
(* message's result.                                                       *)
C8_SessionFollowsResolution ==
    [][\A t \in {PT_RESPONSE, PT_USER_DENIED}, i \in CarriedIds, r \in Results :
          /\ (HasFirst(r) /\ Resolves(t, i, r, {"eth_accounts"}))
                => account' = r.v[1]
          /\ (r # Undefined /\ Resolves(t, i, r, {"net_version"}))
                => network' = r]_vars

(* C8 (amended): after a response (PT_RESPONSE) to a pending eth_accounts  *)
(* request, account is the first element of the result array; after a      *)
(* response to a pending net_version request, network is the result; a     *)
(* denial, with or without an id, changes neither field. In no reachable   *)
(* state can the listener handle such a message otherwise.                 *)
C8_SessionFollowsResponse ==
    /\ \A i \in DOMAIN requests, r \in Results :
          /\ (requests[i].payload.method = "eth_accounts" /\ HasFirst(r)) =>
                ~ENABLED (/\ Resolves(PT_RESPONSE, i, r, {"eth_accounts"})
                          /\ account' # r.v[1])
          /\ requests[i].payload.method = "net_version" =>
                ~ENABLED (/\ Resolves(PT_RESPONSE, i, r, {"net_version"})
                          /\ network' # r)
    /\ \A resp \in {NoResponse} \cup [id : RespIds, result : Results] :
          ~ENABLED (/\ Listen(FromPortis(PT_USER_DENIED, resp))
                    /\ <<account, network>>' # <<account, network>>)

\* the responses to an eth_accounts and to a net_version request were handled
C8_Witness ==
    /\ Len(cbLog) = 2
    /\ cbLog[1].err = Null /\ cbLog[2].err = Null
    /\ \E i, j \in DOMAIN requests :
          /\ requests[i].payload.method = "eth_accounts"
          /\ requests[j].payload.method = "net_version"
          /\ \E k, l \in 1 .. 2 :
                /\ cbLog[k].cb = i /\ cbLog[k].res.result = Arr(<<Addr1>>)
                /\ cbLog[l].cb = j /\ cbLog[l].res.result = Str(<<"4", "2">>)
    /\ account = Addr1
    /\ network = Str(<<"4", "2">>)

\* a response to a pending request of one of the methods is being handled
ResponseTo(methods) ==
    \E i \in CarriedIds, r \in Results : Resolves(PT_RESPONSE, i, r, methods)

(* C9 (as claimed): account changes only in the handling of a response to  *)
(* a pending eth_accounts request, and network only in the handling of a   *)
(* response to a pending net_version request.                              *)
C9_SessionOnlyByAccountsAndNetVersion ==
    [][/\ account' # account => ResponseTo({"eth_accounts"})
       /\ network' # network => ResponseTo({"net_version"})]_vars

(* C9 (amended): account changes only in the handling of a response to a   *)
(* pending eth_accounts or eth_coinbase request, and network only in the   *)
(* handling of a response to a pending net_version request; every other    *)
(* message and every facade call leaves both unchanged.                    *)
C9_SessionOnlyByQueries ==
    [][/\ account' # account => ResponseTo({"eth_accounts", "eth_coinbase"})
       /\ network' # network => ResponseTo({"net_version"})]_vars

\* responses have set both fields, account by way of an eth_coinbase request,
\* and a subscriber has been registered and notified
C9_Witness ==
    /\ DOMAIN requests = {1, 2}
    /\ requests[1].payload.method = "eth_coinbase"
    /\ requests[2].payload.method = "net_version"
    /\ account # Null
    /\ network # Null
    /\ evLog # <<>>

\* what a message can touch: the provider's fields, the callbacks registered
\* for posting or for the wrapper, the messages posted, the callbacks invoked
Touchable == <<queue, requests, iframeReady, account, network, events, thens, sent,
               display, cbLog, evLog>>

\* the messages that come from another origin than the Portis origin
ForeignEvents == {e \in Events : e.origin # portisClient}

(* C10: a message whose origin is not the Portis origin changes nothing,   *)
(* whatever its type and payload: in no reachable state can the listener,  *)
(* given such a message, change queue, pending map, readiness, account,    *)
(* network or subscribers, post or register anything for posting, or       *)
(* invoke a completion or subscriber callback; nor does it throw.          *)
C10_ForeignOriginIgnored ==
    \A e \in ForeignEvents :
        /\ ~ENABLED (Listen(e) /\ Touchable' # Touchable)
        /\ ~Throws(e)

\* a foreign message can be delivered where a request is queued, another is
\* pending, the account is known and a subscriber is registered
C10_Witness ==
    /\ ENABLED (\E e \in ForeignEvents : Listen(e))
    /\ queue # <<>>
    /\ DOMAIN requests # {}
    /\ account # Null
    /\ events # <<>>

----------------------------------------------------------------------------
\* the methods the synchronous send serves
AllowList == {"eth_accounts", "eth_coinbase", "net_version", "eth_uninstallFilter"}

\* the requests held by the provider, queued or pending
Held == Len(queue) + Cardinality(DOMAIN requests)

(* C11: send with a method outside the allow-list throws and relays        *)
(* nothing: queue, pending map, session state, and what is posted or       *)
(* registered for posting are unchanged; of the allow-listed methods only  *)
(* eth_uninstallFilter enqueues a request, the others change nothing.      *)
C11_SyncSendAllowList ==
    \A m \in SyncMethods :
        /\ SendThrows(m) <=> m \notin AllowList
        /\ m # "eth_uninstallFilter" =>
              ~ENABLED (/\ Send(m)
                        /\ <<provider, thens, sent, cbLog, nextId>>'
                              # <<provider, thens, sent, cbLog, nextId>>)
        /\ m = "eth_uninstallFilter" =>
              ~ENABLED (/\ Send(m)
                        /\ ~(/\ Held' = Held + 1
                             /\ nextId' = nextId + 1
                             /\ UNCHANGED <<account, network, iframeReady>>))

\* a request of the synchronous send for eth_uninstallFilter is queued before
\* the ready-signal, next to a request of sendAsync
C11_Witness ==
    /\ ~iframeReady
    /\ Len(queue) = 2
    /\ queue[1].payload.method = "eth_accounts"
    /\ queue[2].payload.method = "eth_uninstallFilter"

----------------------------------------------------------------------------
\* results that list one account
AccountLists == {Arr(<<Addr1>>), Arr(<<Addr2>>)}

(* C12: a response with the id i of a pending request invokes the          *)
(* callback that was enqueued with request i, with (null, response), and   *)
(* no other callback; if the request is an eth_accounts request and the    *)
(* result is the list [a] of one address, the synchronous send of          *)
(* eth_accounts then returns [a].                                          *)
C12_ResponseReachesCaller ==
    \A i \in DOMAIN requests, r \in Results \cup AccountLists :
        LET resp == [id |-> i, result |-> r]
        IN  ~ENABLED (/\ Listen(FromPortis(PT_RESPONSE, resp))
                      /\ ~(/\ cbLog' = Append(cbLog, [cb |-> i, err |-> Null,
                                                      res |-> resp])
                           /\ (/\ requests[i].payload.method = "eth_accounts"
                               /\ r \in AccountLists)
                                 => SendResult("eth_accounts")' = r))

\* of two pending requests the eth_accounts request was answered with one
\* address: its callback alone was invoked, and send returns the list
C12_Witness ==
    /\ DOMAIN requests = {1, 2}
    /\ requests[2].payload.method = "eth_accounts"
    /\ cbLog = <<[cb |-> 2, err |-> Null,
                  res |-> [id |-> 2, result |-> Arr(<<Addr1>>)]]>>
    /\ SendResult("eth_accounts") = Arr(<<Addr1>>)

----------------------------------------------------------------------------
\* ids of the queued items
QueuedIds == {queue[k].payload.id : k \in 1 .. Len(queue)}

\* ids of the requests handed to sendPostMessage: posted, or to be posted by
\* the microtask that follows
HandedOverIds ==
    {thens[k].payload.id : k \in {j \in 1 .. Len(thens) : thens[j].kind = "post"}}
        \cup {sent[k].payload.id : k \in 1 .. Len(sent)}

(* C13: no request is queued and pending at once: the ids of the queued    *)
(* items and the keys of the pending map are disjoint. An item leaves the  *)
(* queue in the step that hands it to sendPostMessage and registers it:    *)
(* every request enqueued is either queued, and then neither handed over   *)
(* nor pending, or handed over and pending.                                *)
C13_QueuedXorPending ==
    /\ QueuedIds \cap DOMAIN requests = {}
    /\ QueuedIds \cap HandedOverIds = {}
    /\ HandedOverIds = DOMAIN requests
    /\ QueuedIds \cup DOMAIN requests = 1 .. nextId

\* the state between the handling of the ready-signal and the microtasks:
\* both queued requests have left the queue, are pending and handed over
C13_Witness ==
    /\ iframeReady
    /\ cbLog = <<>>
    /\ queue = <<>>
    /\ DOMAIN requests = {1, 2}
    /\ Len(thens) = 2
    /\ sent = <<>>

----------------------------------------------------------------------------
\* positions in the subscriber list of the subscribers of an event name;
\* the callback passed to the k-th call of on is callback k
Registered(name) == {k \in 1 .. Len(events) : events[k].eventName = name}

\* the addresses a login notification carries
Addresses == {Addr1, Addr2}

(* C14: a login notification with address a invokes the callback of every  *)
(* subscriber registered for 'login', once, in registration order, with    *)
(* {provider: 'portis', address: a}; it invokes no subscriber of another   *)
(* event name and no completion callback, and leaves the subscriber list   *)
(* as it was.                                                              *)
C14_LoginNotifiesLoginSubscribers ==
    \A a \in Addresses :
        ~ENABLED (/\ Listen(FromPortis(PT_USER_LOGGED_IN, [address |-> a]))
                  /\ ~(LET old == Len(evLog)
                           new == Len(evLog') - Len(evLog)
                       IN  /\ SubSeq(evLog', 1, old) = evLog
                           /\ new = Cardinality(Registered("login"))
                           /\ {evLog'[old + k].callback : k \in 1 .. new}
                                 = Registered("login")
                           /\ \A k \in 1 .. new :
                                 /\ evLog'[old + k].arg
                                       = [provider |-> "portis", address |-> a]
                                 /\ k > 1 => evLog'[old + k - 1].callback
                                                < evLog'[old + k].callback
                           /\ events' = events
                           /\ cbLog' = cbLog))

\* two login subscribers registered around a subscriber of another event
\* were notified of one login, in registration order, the other was not
C14_Witness ==
    /\ Len(events) = 3
    /\ Registered("login") = {1, 3}
    /\ evLog = <<[callback |-> 1, arg |-> [provider |-> "portis", address |-> Addr2]],
                 [callback |-> 3, arg |-> [provider |-> "portis", address |-> Addr2]]>>

----------------------------------------------------------------------------
\* the payload of a purchase-initiated event
PurchasePayload == [provider |-> "portis", purchaseId |-> "p1"]

\* the types of message the iframe can announce a purchase with: the types
\* the listener has a case for, and PT_HANDLE_REQUEST for every other type
MsgTypes == {PT_GREEN_LIGHT, PT_RESPONSE, PT_SHOW_IFRAME, PT_HIDE_IFRAME,
             PT_USER_DENIED, PT_USER_LOGGED_IN, PT_HANDLE_REQUEST}

\* the invocations of the subscribers of an event name, in registration
\* order, with the given argument
Notified(name, arg) ==
    LET subs == SelectSeq(events, LAMBDA e : e.eventName = name)
    IN  [k \in 1 .. Len(subs) |-> [callback |-> subs[k].callback, arg |-> arg]]

(* C15 (as claimed): where subscribers are registered for                  *)
(* 'purchase-initiated' and the listener is free to handle a message, the  *)
(* iframe has a message by which it announces a purchase: handling it      *)
(* invokes each of these subscribers with the payload {provider,           *)
(* purchaseId} as sent.                                                    *)
C15_PurchaseNotifiesSubscribers ==
    (/\ Registered("purchase-initiated") # {}
     /\ elements = "resolved" /\ ~MicrotaskPending
     /\ evLog = <<>> /\ thens = <<>>)
        => \E t \in MsgTypes :
              ENABLED (/\ Listen(FromPortis(t, PurchasePayload))
                       /\ evLog' = Notified("purchase-initiated", PurchasePayload))

----------------------------------------------------------------------------
\* the options the constructor must refuse
Refused(opts, localhost) ==
    \/ opts.infuraApiKey # "" /\ opts.providerNodeUrl # ""
    \/ ~localhost /\ opts.apiKey = ""

(* C16: the constructor, called with both infuraApiKey and providerNodeUrl *)
(* or without apiKey on a page not served from localhost, throws and sets  *)
(* up nothing: no iframe is created and no listener installed, so that     *)
(* while no call has succeeded there is no queue, no pending request, no   *)
(* iframe, and no message is handled.                                      *)
C16_RefusedConstruction ==
    /\ \A opts \in Options, localhost \in BOOLEAN, loaded \in BOOLEAN :
          Refused(opts, localhost) =>
              ~ENABLED (/\ Construct(opts, localhost, loaded)
                        /\ ~(/\ ctorError' \in {ApiKeyMissing, InvalidParameters}
                             /\ elements' = "none"
                             /\ UNCHANGED <<provider, contentWindow, display, thens,
                                            sent, cbLog, evLog, nextId>>))
    /\ elements = "none" =>
          /\ queue = <<>> /\ requests = <<>> /\ ~contentWindow
          /\ thens = <<>> /\ sent = <<>>
          /\ \A e \in Events : ~ENABLED Listen(e)

\* a call with both infuraApiKey and providerNodeUrl has thrown, and there is
\* no provider
C16_Witness ==
    /\ ctorError = InvalidParameters
    /\ elements = "none"
    /\ queue = <<>> /\ requests = <<>> /\ ~contentWindow

----------------------------------------------------------------------------
\* the payload of the next request of the facade
NextPayload(method, params) == [id |-> nextId + 1, method |-> method, params |-> params]

\* the calls of the facade that enqueue, each with the payload it enqueues
EnqueueCalls ==
    {[method |-> m, params |-> <<>>] : m \in AsyncMethods}
        \cup {[method |-> SET_DEFAULT_EMAIL, params |-> <<"a@b.c">>],
              [method |-> SHOW_PORTIS, params |-> <<>>]}

\* the call of the facade that enqueues c
Call(c) ==
    CASE c.method = SET_DEFAULT_EMAIL -> SetDefaultEmail(c.params[1])
      [] c.method = SHOW_PORTIS       -> ShowPortis
      [] OTHER                        -> SendAsync(c.method)

(* C17: enqueue takes a request whether or not the iframe is ready. If it  *)
(* is ready, then when enqueue returns the queue is empty and the request  *)
(* is pending and handed to sendPostMessage, after everything handed over  *)
(* before; if it is not ready, the request is the new tail of the queue    *)
(* and nothing is handed over or posted.                                   *)
C17_EnqueueByReadiness ==
    \A c \in EnqueueCalls :
        LET payload == NextPayload(c.method, c.params)
            item    == [payload |-> payload, cb |-> nextId + 1]
        IN  /\ nextId < MaxEnqueue => ENABLED Call(c)
            /\ iframeReady =>
                  ~ENABLED (/\ Call(c)
                            /\ ~(/\ queue' = <<>>
                                 /\ requests' = (payload.id :> item) @@ requests
                                 /\ thens' = Append(thens, PostThen(PT_HANDLE_REQUEST,
                                                                    payload))
                                 /\ sent' = sent))
            /\ ~iframeReady =>
                  ~ENABLED (/\ Call(c)
                            /\ ~(/\ queue' = Append(queue, item)
                                 /\ UNCHANGED <<requests, thens, sent>>))

\* the first request, queued before the ready-signal, has been posted; the
\* second, enqueued after it, is pending and waits for its microtask
C17_Witness ==
    /\ iframeReady
    /\ cbLog = <<>>
    /\ queue = <<>>
    /\ DOMAIN requests = {1, 2}
    /\ Len(sent) = 1 /\ sent[1].payload.id = 1
    /\ Len(thens) = 1 /\ thens[1].kind = "post" /\ thens[1].payload.id = 2

----------------------------------------------------------------------------
\* how often the request with the id was handed to sendPostMessage
TimesHandedOver(id) ==
    Cardinality({k \in 1 .. Len(thens) : thens[k].kind = "post" /\ thens[k].payload.id = id})
        + Cardinality({k \in 1 .. Len(sent) : sent[k].payload.id = id})

(* C18: no request is transmitted twice, whatever ready-signals, responses *)
(* and denials are handled; and once the ready-signal has been handled,    *)
(* every request enqueued so far has been transmitted exactly once and is  *)
(* in the pending map.                                                     *)
C18_TransmittedExactlyOnce ==
    /\ \A id \in 1 .. nextId : TimesHandedOver(id) <= 1
    /\ iframeReady =>
          \A id \in 1 .. nextId : TimesHandedOver(id) = 1 /\ id \in DOMAIN requests

\* two requests were posted once each, and the iframe has since sent the
\* ready-signal and two messages that invoked callbacks
C18_Witness ==
    /\ iframeReady
    /\ nextId = 2
    /\ Len(sent) = 2 /\ thens = <<>>
    /\ DOMAIN requests = {1, 2}
    /\ Len(cbLog) = 2

----------------------------------------------------------------------------
\* the callbacks of the pending requests
PendingCallbacks == {requests[i].cb : i \in DOMAIN requests}

(* C19: a denial without an id invokes no completion callback of a request *)
(* that is in the pending map when the denial arrives.                     *)
C19_BroadcastSparesPending ==
    \A resp \in BroadcastDenials :
        ~ENABLED (/\ Listen(FromPortis(PT_USER_DENIED, resp))
                  /\ \E k \in Len(cbLog) + 1 .. Len(cbLog') :
                        cbLog'[k].cb \in PendingCallbacks)

\* a denial without an id arrived while request 1 was pending and posted and
\* request 2 queued: the callback of 1 was not invoked again, that of 2 was
C19_Witness ==
    /\ ~iframeReady
    /\ cbLog = <<Denied(1), Denied(2)>>
    /\ Len(sent) = 1 /\ sent[1].payload.id = 1
    /\ Len(thens) = 1 /\ thens[1].payload.id = 2

----------------------------------------------------------------------------
\* the messages of the iframe that touch the relay
RelayMessages ==
    {FromPortis(PT_GREEN_LIGHT, NoResponse)}
        \cup {FromPortis(t, resp) :
                 t \in {PT_RESPONSE, PT_USER_DENIED},
                 resp \in {NoResponse} \cup [id : RespIds, result : Results]}

\* the callback has received the denial error
WasDenied(log, cb) == \E k \in 1 .. Len(log) : log[k] = Denied(cb)

(* C20 (as claimed): a request whose callback has received the denial      *)
(* error is not transmitted afterwards: no message is handled in such a    *)
(* way that, when its handler returns, the callback of a request has the   *)
(* denial error and the request has newly been handed to sendPostMessage.  *)
(* (Every handler invokes callbacks before it drains the queue.)           *)
C20_DeniedNeverTransmitted ==
    \A m \in RelayMessages :
        ~ENABLED (/\ Listen(m)
                  /\ \E id \in 1 .. nextId :
                        /\ WasDenied(cbLog', id)
                        /\ TimesHandedOver(id)' > TimesHandedOver(id))

----------------------------------------------------------------------------
\* request id has been enqueued
Enqueued(id) == id <= nextId

\* the iframe has been posted the request id
Transmitted(id) ==
    \E k \in 1 .. Len(sent) :
        sent[k].msgType = PT_HANDLE_REQUEST /\ sent[k].payload.id = id

(* C21: in a run in which the ready-signal is handled, every request       *)
(* enqueued, before or after the ready-signal, is eventually posted to the *)
(* iframe and in the pending map, and from some point on the queue is      *)
(* empty for good.  The iframe sends the ready-signal, so the iframe has   *)
(* been created in every state in which the signal has been handled.       *)
C21_EveryRequestTransmitted ==
    /\ [](iframeReady => elements = "resolved")
    /\ <>iframeReady =>
          /\ \A id \in 1 .. MaxEnqueue :
                Enqueued(id) ~> (Transmitted(id) /\ id \in DOMAIN requests)
          /\ <>[](queue = <<>>)

\* after the ready-signal both requests enqueued have been posted and are
\* pending, the queue is empty, and no callback has been invoked yet
C21_Witness ==
    /\ iframeReady
    /\ nextId = MaxEnqueue
    /\ \A id \in 1 .. MaxEnqueue : Transmitted(id) /\ id \in DOMAIN requests
    /\ queue = <<>>
    /\ cbLog = <<>>

====
